---- MODULE Spec2Model ----
(***************************************************************************)
(* A model of buildhelpers/rm_duplicates.py: the three reducers that work  *)
(* on one TEI entry (rm_doubled_senses, rm_doubled_quotes,                 *)
(* rm_empty_nodes), the loop of main() with its detect-only exit and its   *)
(* external commands, and XmlParserWrapper's verbatim prefix and suffix.   *)
(*                                                                         *)
(* Interpreter semantics assumed: CPython 3.7 or 3.8, where a dict keeps   *)
(* insertion order and Element.getchildren() still exists (it returns a    *)
(* copy of the child list).  Elements compare by identity.                 *)
(*                                                                         *)
(* An entry is an arena of nodes: every node has a fixed identity (a       *)
(* number), and the tree is the four attribute maps kids, tag, text, n.    *)
(* A node removed from its parent keeps its own fields, as the Python      *)
(* object does.  A Python str is a sequence of one-character strings;      *)
(* None is the value None below.                                           *)
(***************************************************************************)
EXTENDS Integers, Sequences, FiniteSets, TLC

VARIABLES
    tree,       \* the entry the reducers work on (mutated in place)
    pre,        \* that entry as it was before the last reducer call
    last,       \* the reducer called last: "none", "senses", "quotes", "empty"
    ret,        \* what it returned: "None", "True", "False"
    exc,        \* the exception it raised: "none", "ValueError", "AttributeError"
    pc,         \* position in main() or in the twofold pipeline
    round,      \* pipeline: the run of the three reducers, 1 or 2
    snap,       \* pipeline: the entry as the first run left it;
                \* main(): the entry as the loop received it
    main,       \* main(): detect_changes, the loop's and the exit's state
    wrap        \* XmlParserWrapper: content, before_root, after_root, root, out

vars == <<tree, pre, last, ret, exc, pc, round, snap, main, wrap>>

\* ------------------------------------------------------------ bounds

\* Quotes of an entry handed to a reducer directly or to the pipeline.
MaxQuotes == 3
\* Quotes of an entry of the document main() walks.
MaxDocQuotes == 3
\* Entries of the document main() walks.
MaxEntries == 2
\* Length, in lexical tokens, of the file XmlParserWrapper reads.
MaxLen == 5

\* ------------------------------------------------------------ values

None == <<"None">>

\* bool(x) of a str or None
Truthy(x) == x # None /\ x # <<>>

IsSpace(c) == c \in {" ", "\n", "\t"}

RECURSIVE LStrip(_)
LStrip(s) == IF s # <<>> /\ IsSpace(Head(s)) THEN LStrip(Tail(s)) ELSE s

RECURSIVE RStrip(_)
RStrip(s) ==
    IF s # <<>> /\ IsSpace(s[Len(s)]) THEN RStrip(SubSeq(s, 1, Len(s) - 1)) ELSE s

\* str.strip()
Strip(s) == RStrip(LStrip(s))

Min(S) == CHOOSE m \in S : \A x \in S : m <= x

RECURSIVE SortedSeq(_)
SortedSeq(S) ==
    IF S = {} THEN <<>> ELSE LET m == Min(S) IN <<m>> \o SortedSeq(S \ {m})

InSeq(x, s) == \E i \in 1..Len(s) : s[i] = x

\* list.remove(x) on a list that holds x: the first occurrence goes.
RECURSIVE RemoveFirst(_, _)
RemoveFirst(s, x) ==
    IF s = <<>> THEN <<>>
    ELSE IF Head(s) = x THEN Tail(s)
    ELSE <<Head(s)>> \o RemoveFirst(Tail(s), x)

\* ------------------------------------------------------------ the tree

Entry == 0
NoParent == 0 - 1
SenseId(i) == 3 * i - 2
CitId(i) == 3 * i - 1
QuoteId(i) == 3 * i
ExtraId == 3 * MaxQuotes + 1
Ids == 0..ExtraId

\* The texts a quote is given: absent, whitespace only, a word, the same
\* word with trailing whitespace, and another word.
Texts == {None, <<" ">>, <<"a">>, <<"a", " ">>, <<"b">>}
\* The texts of the quotes of the document main() walks.
DocTexts == {None, <<"a">>}
NVals == {None, <<"1">>}
\* What an entry holds before its senses: nothing, a form with text, or (in
\* the document main() walks) a comment.
Extras == {"none", "form"}
DocExtras == {"none", "form", "Comment"}

\* One quote of an entry to build, with the place it opens: "quote" (the
\* same cit as the quote before it), "cit" (a new cit of the same sense) or
\* "sense" (a new sense, with its attribute n).
Items(texts) ==
    { it \in [text : texts, at : {"quote", "cit", "sense"}, n : NVals] :
        it.at # "sense" => it.n = None }

Descs(k, texts) ==
    UNION { { d \in [1..j -> Items(texts)] : j > 0 => d[1].at = "sense" } : j \in 0..k }

\* Element.remove(child); the caller has checked that child is there.
Remove(t, parent, child) ==
    [t EXCEPT !.kids[parent] = RemoveFirst(t.kids[parent], child)]

\* Element.findall(TEI_NS + name): the direct children with that tag.
findall(t, x, name) == SelectSeq(t.kids[x], LAMBDA c : t.tag[c] = name)

RECURSIVE Preorder(_, _)
RECURSIVE PreorderAll(_, _)
Preorder(t, x) == <<x>> \o PreorderAll(t, t.kids[x])
PreorderAll(t, s) ==
    IF s = <<>> THEN <<>> ELSE Preorder(t, Head(s)) \o PreorderAll(t, Tail(s))

Range(s) == {s[i] : i \in 1..Len(s)}

\* The nodes of the entry's subtree.
Nodes(t) == Range(Preorder(t, Entry))

\* Element.iter(TEI_NS + name): the node and its descendants, in document
\* order, that carry the tag.
tei_iter(t, x, name) == SelectSeq(Preorder(t, x), LAMBDA c : t.tag[c] = name)

\* The tree the parser builds for one entry.  The sense, cit and quote tags
\* come from the file; a comment is an element whose tag is the function
\* ET.Comment, not a string.
Build(d, extra) ==
    LET k == Len(d)
        Opens(i) == d[i].at # "quote"
        NextOpen(i) ==
            Min({j \in (i + 1)..k : Opens(j)} \cup {k + 1})
        NextSense(i) ==
            Min({j \in (i + 1)..k : d[j].at = "sense"} \cup {k + 1})
        ids(S, f(_)) == LET s == SortedSeq(S) IN [j \in 1..Len(s) |-> f(s[j])]
        used == {Entry} \cup (IF extra = "none" THEN {} ELSE {ExtraId})
                \cup {QuoteId(i) : i \in 1..k}
                \cup {CitId(i) : i \in {j \in 1..k : Opens(j)}}
                \cup {SenseId(i) : i \in {j \in 1..k : d[j].at = "sense"}}
    IN  [ kids |-> [x \in Ids |->
            IF x = Entry THEN
                (IF extra = "none" THEN <<>> ELSE <<ExtraId>>)
                \o ids({i \in 1..k : d[i].at = "sense"}, SenseId)
            ELSE IF \E i \in 1..k : x = SenseId(i) /\ d[i].at = "sense" THEN
                LET i == (x + 2) \div 3
                IN  ids({j \in i..(NextSense(i) - 1) : Opens(j)}, CitId)
            ELSE IF \E i \in 1..k : x = CitId(i) /\ Opens(i) THEN
                LET i == (x + 1) \div 3
                IN  ids(i..(NextOpen(i) - 1), QuoteId)
            ELSE <<>>],
          tag |-> [x \in Ids |->
            IF x \notin used THEN "unused"
            ELSE IF x = Entry THEN "entry"
            ELSE IF x = ExtraId THEN extra
            ELSE IF x % 3 = 1 THEN "sense"
            ELSE IF x % 3 = 2 THEN "cit" ELSE "quote"],
          text |-> [x \in Ids |->
            IF x = ExtraId /\ extra = "form" THEN <<"w">>
            ELSE IF x = ExtraId /\ extra = "Comment" THEN <<"c">>
            ELSE IF x \in {QuoteId(i) : i \in 1..k} THEN d[x \div 3].text
            ELSE None],
          n |-> [x \in Ids |->
            IF \E i \in 1..k : x = SenseId(i) /\ d[i].at = "sense"
            THEN d[(x + 2) \div 3].n ELSE None] ]

EntrySet(k, texts, extras) == { Build(d, e) : d \in Descs(k, texts), e \in extras }

\* ------------------------------------------------------------ the reducers

\* itertools.combinations(range(1, n + 1), 2), in its lexicographic order.
RECURSIVE CombinationsFrom(_, _, _)
CombinationsFrom(i, j, n) ==
    IF i >= n THEN <<>>
    ELSE IF j > n THEN CombinationsFrom(i + 1, i + 2, n)
    ELSE <<<<i, j>>>> \o CombinationsFrom(i, j + 1, n)

combinations(n) == CombinationsFrom(1, 2, n)

\* tuple(q.text.strip() for q in tei_iter(sense, 'quote') if q.text)
Signature(t, sense) ==
    LET qs == SelectSeq(tei_iter(t, sense, "quote"), LAMBDA q : Truthy(t.text[q]))
    IN  [i \in 1..Len(qs) |-> Strip(t.text[qs[i]])]

\* len(s1[1]) == len(s2[1]) and all(e1 == e2 for e1, e2 in zip(s1[1], s2[1]))
SameSignature(a, b) ==
    Len(a) = Len(b) /\ \A i \in 1..Len(a) : a[i] = b[i]

\* SensesStep with the two senses of the pair confused: the first is removed.
SensesStepRemovesFirst(st, s1, s2, sig) ==
    IF SameSignature(sig[s1], sig[s2])
    THEN IF InSeq(s1, st.tree.kids[Entry])
         THEN [tree |-> Remove(st.tree, Entry, s1), changed |-> TRUE]
         ELSE st
    ELSE st

\* One pair of the loop of rm_doubled_senses: entry.remove(s2) when the
\* signatures agree, a ValueError of a sense already removed swallowed.
SensesStep(st, s1, s2, sig) ==
    IF SameSignature(sig[s1], sig[s2])
    THEN IF InSeq(s2, st.tree.kids[Entry])
         THEN [tree |-> Remove(st.tree, Entry, s2), changed |-> TRUE]
         ELSE st
    ELSE st

RECURSIVE SensesLoop(_, _, _, _)
SensesLoop(st, senses, sig, pairs) ==
    IF pairs = <<>> THEN st
    ELSE SensesLoop(SensesStep(st, senses[Head(pairs)[1]], senses[Head(pairs)[2]], sig),
                    senses, sig, Tail(pairs))

rm_doubled_senses(t) ==
    LET senses == findall(t, Entry, "sense")
        sig == [s \in Ids |-> Signature(t, s)]
    IN  IF Len(senses) = 1 THEN [tree |-> t, ret |-> "None", exc |-> "none"]
        ELSE LET st == SensesLoop([tree |-> t, changed |-> FALSE], senses, sig,
                                  combinations(Len(senses)))
             IN  [tree |-> st.tree,
                  ret |-> IF st.changed THEN "True" ELSE "False",
                  exc |-> "none"]

\* [(cit, q) for s in senses for cit in findall(s, 'cit') for q in findall(cit, 'quote')]
RECURSIVE QuotesOfCits(_, _)
QuotesOfCits(t, cits) ==
    IF cits = <<>> THEN <<>>
    ELSE LET qs == findall(t, Head(cits), "quote")
         IN  [i \in 1..Len(qs) |-> <<Head(cits), qs[i]>>] \o QuotesOfCits(t, Tail(cits))

RECURSIVE QuotesOfSenses(_, _)
QuotesOfSenses(t, senses) ==
    IF senses = <<>> THEN <<>>
    ELSE QuotesOfCits(t, findall(t, Head(senses), "cit"))
         \o QuotesOfSenses(t, Tail(senses))

Translations(t) == QuotesOfSenses(t, findall(t, Entry, "sense"))

\* not cit1.findall(quote1.tag) or not cit2.findall(quote2.tag) and cit1 is not cit2
SkipPair(t, cit1, quote1, cit2, quote2) ==
    \/ findall(t, cit1, t.tag[quote1]) = <<>>
    \/ (findall(t, cit2, t.tag[quote2]) = <<>> /\ cit1 # cit2)

\* QuotesStep comparing the trimmed texts, as rm_doubled_senses does.
QuotesStepTrimmed(st, trans1, trans2) ==
    LET cit1 == trans1[1]
        quote1 == trans1[2]
        cit2 == trans2[1]
        quote2 == trans2[2]
        trimmed(x) == IF x = None THEN x ELSE Strip(x)
    IN  IF SkipPair(st.tree, cit1, quote1, cit2, quote2) THEN st
        ELSE IF trimmed(st.tree.text[quote1]) = trimmed(st.tree.text[quote2])
        THEN IF InSeq(quote2, st.tree.kids[cit2])
             THEN [st EXCEPT !.tree = Remove(st.tree, cit2, quote2), !.changed = TRUE]
             ELSE [st EXCEPT !.exc = "ValueError"]
        ELSE st

\* One pair of the loop of rm_doubled_quotes.  cit2.remove(quote2) raises
\* ValueError when quote2 is no longer a child of cit2; nothing catches it.
QuotesStep(st, trans1, trans2) ==
    LET cit1 == trans1[1]
        quote1 == trans1[2]
        cit2 == trans2[1]
        quote2 == trans2[2]
    IN  IF SkipPair(st.tree, cit1, quote1, cit2, quote2) THEN st
        ELSE IF st.tree.text[quote1] = st.tree.text[quote2]
        THEN IF InSeq(quote2, st.tree.kids[cit2])
             THEN [st EXCEPT !.tree = Remove(st.tree, cit2, quote2), !.changed = TRUE]
             ELSE [st EXCEPT !.exc = "ValueError"]
        ELSE st

RECURSIVE QuotesLoop(_, _, _)
QuotesLoop(st, senses, pairs) ==
    IF pairs = <<>> \/ st.exc # "none" THEN st
    ELSE QuotesLoop(QuotesStep(st, senses[Head(pairs)[1]], senses[Head(pairs)[2]]),
                    senses, Tail(pairs))

rm_doubled_quotes(t) ==
    LET senses == Translations(t)
    IN  IF Len(senses) <= 1 THEN [tree |-> t, ret |-> "None", exc |-> "none"]
        ELSE LET st == QuotesLoop([tree |-> t, changed |-> FALSE, exc |-> "none"],
                                  senses, combinations(Len(senses)))
             IN  [tree |-> st.tree,
                  ret |-> IF st.changed THEN "True" ELSE "False",
                  exc |-> st.exc]

\* node.text is None or node.text.strip() == ''
NoText(t, x) == t.text[x] = None \/ Strip(t.text[x]) = <<>>

\* EmptyStep marking a change for every sense, with or without an n to strip.
EmptyStepAnySense(st, parent, node) ==
    IF st.tree.tag[node] = "Comment" THEN [st EXCEPT !.exc = "AttributeError"]
    ELSE
      LET strip == st.tree.tag[node] = "sense"
          t1 == IF strip THEN [st.tree EXCEPT !.n[node] = None] ELSE st.tree
          c1 == st.changed \/ strip
      IN  IF NoText(t1, node) /\ Len(t1.kids[node]) = 0
          THEN IF parent = NoParent
               THEN [st EXCEPT !.tree = t1, !.changed = c1, !.exc = "AttributeError"]
               ELSE [st EXCEPT !.tree = Remove(t1, parent, node), !.changed = TRUE]
          ELSE [st EXCEPT !.tree = t1, !.changed = c1,
                          !.nodes = st.nodes \o [i \in 1..Len(t1.kids[node]) |->
                                                   <<node, t1.kids[node][i]>>]]

\* One (parent, node) of a pass of rm_empty_nodes.  A comment's tag is a
\* function, so node.tag.endswith raises AttributeError; so does
\* parent.remove for the entry itself, whose parent is None.
EmptyStep(st, parent, node) ==
    IF st.tree.tag[node] = "Comment" THEN [st EXCEPT !.exc = "AttributeError"]
    ELSE
      LET strip == st.tree.tag[node] = "sense" /\ Truthy(st.tree.n[node])
          t1 == IF strip THEN [st.tree EXCEPT !.n[node] = None] ELSE st.tree
          c1 == st.changed \/ strip
      IN  IF NoText(t1, node) /\ Len(t1.kids[node]) = 0
          THEN IF parent = NoParent
               THEN [st EXCEPT !.tree = t1, !.changed = c1, !.exc = "AttributeError"]
               ELSE [st EXCEPT !.tree = Remove(t1, parent, node), !.changed = TRUE]
          ELSE [st EXCEPT !.tree = t1, !.changed = c1,
                          !.nodes = st.nodes \o [i \in 1..Len(t1.kids[node]) |->
                                                   <<node, t1.kids[node][i]>>]]

\* for parent, node in nodes: the list grows while it is walked.
RECURSIVE EmptyPass(_, _)
EmptyPass(st, i) ==
    IF i > Len(st.nodes) \/ st.exc # "none" THEN st
    ELSE EmptyPass(EmptyStep(st, st.nodes[i][1], st.nodes[i][2]), i + 1)

\* for _ in range(0, 2): nodes = [(None, entry)]; ...
RECURSIVE EmptyPasses(_, _)
EmptyPasses(st, passes) ==
    IF passes = 0 \/ st.exc # "none" THEN st
    ELSE EmptyPasses(EmptyPass([st EXCEPT !.nodes = <<<<NoParent, Entry>>>>], 1),
                     passes - 1)

\* rm_empty_nodes with a single pass.
rm_empty_nodes_one_pass(t) ==
    LET st == EmptyPasses([tree |-> t, changed |-> FALSE, exc |-> "none",
                           nodes |-> <<>>], 1)
    IN  [tree |-> st.tree,
         ret |-> IF st.changed THEN "True" ELSE "False",
         exc |-> st.exc]

rm_empty_nodes(t) ==
    LET st == EmptyPasses([tree |-> t, changed |-> FALSE, exc |-> "none",
                           nodes |-> <<>>], 2)
    IN  [tree |-> st.tree,
         ret |-> IF st.changed THEN "True" ELSE "False",
         exc |-> st.exc]

\* ------------------------------------------------------------ a reducer called on any entry

Reduce(name, t) ==
    CASE name = "senses" -> rm_doubled_senses(t)
      [] name = "quotes" -> rm_doubled_quotes(t)
      [] name = "empty" -> rm_empty_nodes(t)

\* No exit status yet.
Running == 0 - 1

\* main() and XmlParserWrapper before they have done anything.
MainStart(detect, entries) ==
    [ detect |-> detect,        \* args.detect_changes
      entries |-> entries,      \* entries of the document
      idx |-> 0,                \* entries the loop has received
      changed |-> FALSE,
      ch |-> <<"None", "None", "None">>,   \* changed1, changed2, changed3
      written |-> FALSE,        \* tree.write(output_fn) has run
      cmds |-> <<>>,            \* the commands run, with what os.system returned
      status |-> Running,       \* the exit status, once the run has ended
      clean |-> TRUE ]          \* no entry received so far had anything to reduce

WrapStart(file) ==
    [ file |-> file, before_root |-> <<>>, after_root |-> <<>>, root |-> <<>>,
      out |-> <<>>, err |-> "none" ]

UnitInit ==
    /\ tree \in EntrySet(MaxQuotes, Texts, Extras)
    /\ pre = tree
    /\ last = "none" /\ ret = "None" /\ exc = "none"
    /\ pc = "unit"
    /\ round = 0 /\ snap = tree
    /\ main = MainStart(FALSE, 0) /\ wrap = WrapStart(<<>>)

Call(name) ==
    /\ pc = "unit"
    /\ LET r == Reduce(name, tree)
       IN  /\ tree' = r.tree /\ ret' = r.ret /\ exc' = r.exc
    /\ pre' = tree /\ last' = name /\ pc' = "returned"
    /\ UNCHANGED <<round, snap, main, wrap>>

CallSenses == Call("senses")
CallQuotes == Call("quotes")
CallEmpty == Call("empty")

UnitNext == CallSenses \/ CallQuotes \/ CallEmpty

UnitSpec == UnitInit /\ [][UnitNext]_vars

\* ------------------------------------------------------------ the pipeline, run twice

PipeInit ==
    /\ tree \in EntrySet(MaxQuotes, Texts, Extras)
    /\ pre = tree
    /\ last = "none" /\ ret = "None" /\ exc = "none"
    /\ pc = "senses"
    /\ round = 1 /\ snap = tree
    /\ main = MainStart(FALSE, 0) /\ wrap = WrapStart(<<>>)

\* changed1 = rm_doubled_senses(entry)
PipeSenses ==
    /\ pc = "senses" /\ exc = "none"
    /\ LET r == rm_doubled_senses(tree)
       IN  tree' = r.tree /\ ret' = r.ret /\ exc' = r.exc
    /\ pre' = tree /\ last' = "senses" /\ pc' = "quotes"
    /\ UNCHANGED <<round, snap, main, wrap>>

\* changed2 = rm_doubled_quotes(entry)
PipeQuotes ==
    /\ pc = "quotes" /\ exc = "none"
    /\ LET r == rm_doubled_quotes(tree)
       IN  tree' = r.tree /\ ret' = r.ret /\ exc' = r.exc
    /\ pre' = tree /\ last' = "quotes" /\ pc' = "empty"
    /\ UNCHANGED <<round, snap, main, wrap>>

\* changed3 = rm_empty_nodes(entry); after the first run the three start again.
PipeEmpty ==
    /\ pc = "empty" /\ exc = "none"
    /\ LET r == rm_empty_nodes(tree)
       IN  /\ tree' = r.tree /\ ret' = r.ret /\ exc' = r.exc
           /\ IF round = 1 /\ r.exc = "none"
              THEN round' = 2 /\ snap' = r.tree /\ pc' = "senses"
              ELSE round' = round /\ snap' = snap /\ pc' = "done"
    /\ pre' = tree /\ last' = "empty"
    /\ UNCHANGED <<main, wrap>>

PipeNext == PipeSenses \/ PipeQuotes \/ PipeEmpty

PipeSpec == PipeInit /\ [][PipeNext]_vars

\* ------------------------------------------------------------ main()

\* The exit status the parent process sees for sys.exit(code).
ExitStatus(code) == code % 256

\* What os.system returns: the wait status, which is the exit code times 256
\* for a command that exited and the signal number for one that was killed.
WaitStatuses == {0, 256, 512, 9}

any(flags) == \E i \in 1..Len(flags) : flags[i] = "True"

\* What the claims call a document with nothing to reduce: the three
\* predicates below feed main.clean, which records it and steers nothing.
HasDuplicateSense(t) ==
    LET ss == findall(t, Entry, "sense")
    IN  \E i, j \in 1..Len(ss) : i < j /\ Signature(t, ss[i]) = Signature(t, ss[j])

HasDuplicateQuote(t) ==
    LET qs == Translations(t)
    IN  \E i, j \in 1..Len(qs) : i < j /\ t.text[qs[i][2]] = t.text[qs[j][2]]

HasEmptyNode(t) ==
    \E x \in Nodes(t) : NoText(t, x) /\ t.kids[x] = <<>>

Init ==
    /\ tree = Build(<<>>, "none")
    /\ pre = tree /\ snap = tree
    /\ last = "none" /\ ret = "None" /\ exc = "none"
    /\ pc = "loop"
    /\ round = 0
    /\ \E d \in BOOLEAN, k \in 0..MaxEntries : main = MainStart(d, k)
    /\ wrap = WrapStart(<<>>)

\* sys.exit(code), or the traceback of an exception nothing catches (status 1)
Exit(m, code) == [m EXCEPT !.status = ExitStatus(code)]

\* for entry in tei_iter(tree.root, 'entry'): the next entry of the document
LoopNext ==
    /\ pc = "loop" /\ main.idx < main.entries
    /\ tree' \in EntrySet(MaxDocQuotes, DocTexts, DocExtras)
    /\ snap' = tree' /\ pre' = tree'
    /\ main' = [main EXCEPT !.idx = @ + 1,
                            !.clean = @ /\ ~HasDuplicateSense(tree')
                                        /\ ~HasDuplicateQuote(tree')
                                        /\ ~HasEmptyNode(tree')]
    /\ pc' = "senses"
    /\ UNCHANGED <<last, ret, exc, round, wrap>>

\* the loop is exhausted
LoopEnd ==
    /\ pc = "loop" /\ main.idx = main.entries
    /\ pc' = "after"
    /\ UNCHANGED <<tree, pre, last, ret, exc, round, snap, main, wrap>>

\* One reducer of the loop body; an exception ends the run with status 1.
Reducer(name, k, next) ==
    /\ pc = name
    /\ LET r == Reduce(name, tree)
       IN  /\ tree' = r.tree /\ ret' = r.ret /\ exc' = r.exc
           /\ IF r.exc = "none"
              THEN main' = [main EXCEPT !.ch[k] = r.ret] /\ pc' = next
              ELSE main' = Exit(main, 1) /\ pc' = "exit"
    /\ pre' = tree /\ last' = name
    /\ UNCHANGED <<round, snap, wrap>>

MainSenses == Reducer("senses", 1, "quotes")
MainQuotes == Reducer("quotes", 2, "empty")
MainEmpty == Reducer("empty", 3, "check")

\* if args.detect_changes and any((changed1, changed2, changed3)): sys.exit(42)
\* changed = any((changed, changed1, changed2, changed3))
DetectCheck ==
    /\ pc = "check"
    /\ IF main.detect /\ any(main.ch)
       THEN main' = Exit(main, 42) /\ pc' = "exit"
       ELSE main' = [main EXCEPT !.changed = @ \/ any(main.ch)] /\ pc' = "loop"
    /\ UNCHANGED <<tree, pre, last, ret, exc, round, snap, wrap>>

\* if changed: tree.write(output_fn); without less, sys.exit(0).
\* else: print("Nothing changed, no action taken.")
AfterLoop ==
    /\ pc = "after"
    /\ IF main.changed
       THEN \E less \in BOOLEAN :
              IF less
              THEN main' = [main EXCEPT !.written = TRUE] /\ pc' = "xsltproc"
              ELSE main' = Exit([main EXCEPT !.written = TRUE], 0) /\ pc' = "exit"
       ELSE main' = Exit(main, 0) /\ pc' = "exit"
    /\ UNCHANGED <<tree, pre, last, ret, exc, round, snap, wrap>>

\* exec(command): ret = os.system(command); if ret: sys.exit(ret)
Exec(command, next) ==
    /\ pc = command
    /\ \E r \in WaitStatuses :
         LET m == [main EXCEPT !.cmds = Append(@, [cmd |-> command, ret |-> r])]
         IN  IF r # 0
             THEN main' = Exit(m, r) /\ pc' = "exit"
             ELSE main' = m /\ pc' = next
    /\ UNCHANGED <<tree, pre, last, ret, exc, round, snap, wrap>>

ExecXsltproc == Exec("xsltproc", "make")
ExecMake == Exec("make", "diff")

\* os.system('diff -u ...'): the result is dropped, main() returns.
Diff ==
    /\ pc = "diff"
    /\ \E r \in WaitStatuses :
         main' = Exit([main EXCEPT !.cmds = Append(@, [cmd |-> "diff", ret |-> r])], 0)
    /\ pc' = "exit"
    /\ UNCHANGED <<tree, pre, last, ret, exc, round, snap, wrap>>

Next ==
    \/ LoopNext \/ LoopEnd
    \/ MainSenses \/ MainQuotes \/ MainEmpty
    \/ DetectCheck \/ AfterLoop
    \/ ExecXsltproc \/ ExecMake \/ Diff

Spec == Init /\ [][Next]_vars

\* ------------------------------------------------------------ XmlParserWrapper

\* A file is a sequence of lexical tokens: "U" is one of the markers utf-8,
\* utf8, UTF8, UTF-8; "<TEI" and "</TEI>" are the two strings the wrapper
\* searches for; "x" is any other text; "\n" and "\r" are the line break
\* characters.
Tokens == {"U", "<TEI", "</TEI>", "x", "\n", "\r"}

Files == UNION { [1..k -> Tokens] : k \in 0..MaxLen }

\* open(file_name, encoding='utf-8').read(): text mode reads with universal
\* newlines, so "\r\n" and a lone "\r" both arrive as "\n".
RECURSIVE ReadText(_)
ReadText(bytes) ==
    IF bytes = <<>> THEN <<>>
    ELSE IF Head(bytes) = "\r"
    THEN <<"\n">> \o ReadText(IF Len(bytes) >= 2 /\ bytes[2] = "\n"
                              THEN Tail(Tail(bytes)) ELSE Tail(bytes))
    ELSE <<Head(bytes)>> \o ReadText(Tail(bytes))

\* str.find(token): the 0-based index of the first occurrence, or -1.
RECURSIVE FindFrom(_, _, _)
FindFrom(s, token, i) ==
    IF i >= Len(s) THEN 0 - 1
    ELSE IF s[i + 1] = token THEN i
    ELSE FindFrom(s, token, i + 1)

find(s, token) == FindFrom(s, token, 0)

\* content[a:]
SliceFrom(s, a) == SubSeq(s, a + 1, Len(s))
\* content[:b]
SliceTo(s, b) == SubSeq(s, 1, b)

\* XmlParserWrapper.__init__: before_root, root span and after_root, or the
\* ValueError of a file without a UTF-8 marker, '<TEI' or '</TEI>'.
ParseWrapper(w) ==
    LET content == ReadText(w.file)
        tei_start == find(content, "<TEI")
        rest == SliceFrom(content, tei_start)
        tei_end == find(rest, "</TEI>")
    IN  IF find(content, "U") < 0 THEN [w EXCEPT !.err = "ValueError"]
        ELSE IF tei_start < 0 THEN [w EXCEPT !.err = "ValueError"]
        ELSE IF tei_end < 0
        THEN [w EXCEPT !.before_root = SliceTo(content, tei_start),
                       !.err = "ValueError"]
        ELSE [w EXCEPT !.before_root = SliceTo(content, tei_start),
                       !.after_root = SliceFrom(rest, tei_end + 1),
                       !.root = SliceTo(rest, tei_end + 1)]

\* tree.write(in_mem, encoding="UTF-8") of a root no reducer has touched,
\* taken to give back the span the root was parsed from.
Serialize(root) == root

\* str.endswith('\n')
EndsWithNewline(s) == s # <<>> /\ s[Len(s)] = "\n"

\* write without the line break it appends.
WriteOutAsIs(w) == w.before_root \o Serialize(w.root) \o w.after_root

\* XmlParserWrapper.write: the bytes written to the output file.
WriteOut(w) ==
    w.before_root \o Serialize(w.root) \o w.after_root
    \o (IF ~EndsWithNewline(w.after_root) THEN <<"\n">> ELSE <<>>)

RoundTripInit ==
    /\ tree = Build(<<>>, "none")
    /\ pre = tree /\ snap = tree
    /\ last = "none" /\ ret = "None" /\ exc = "none"
    /\ pc = "open"
    /\ round = 0
    /\ main = MainStart(FALSE, 0)
    /\ \E f \in Files : wrap = WrapStart(f)

Parse ==
    /\ pc = "open"
    /\ wrap' = ParseWrapper(wrap)
    /\ pc' = IF wrap'.err = "none" THEN "parsed" ELSE "failed"
    /\ UNCHANGED <<tree, pre, last, ret, exc, round, snap, main>>

Write ==
    /\ pc = "parsed"
    /\ wrap' = [wrap EXCEPT !.out = WriteOut(wrap)]
    /\ pc' = "written"
    /\ UNCHANGED <<tree, pre, last, ret, exc, round, snap, main>>

RoundTripNext == Parse \/ Write

RoundTripSpec == RoundTripInit /\ [][RoundTripNext]_vars

\* ------------------------------------------------------------ claims about one reducer call

MaxOf(S) == IF S = {} THEN 0 ELSE CHOOSE x \in S : \A y \in S : y <= x

\* How deep the text-less nesting below a node goes: 1 for a text-less leaf,
\* one more than its deepest child for a text-less inner node, and 0 for a
\* node that has text or a descendant with text.
RECURSIVE Hollow(_, _)
Hollow(t, x) ==
    IF ~NoText(t, x) THEN 0
    ELSE LET hs == {Hollow(t, c) : c \in Range(t.kids[x])}
         IN  IF 0 \in hs THEN 0 ELSE 1 + MaxOf(hs)

IsEmpty(t, x) == NoText(t, x) /\ t.kids[x] = <<>>

PreSenses == findall(pre, Entry, "sense")

\* C2: after rm_doubled_senses on an entry with two or more senses, a sense
\* survives exactly when no earlier sense has the same signature (so a group
\* of equal senses keeps its first member only and a sense unlike all others
\* stays), the other children keep their order, no exception escapes, and
\* True is returned exactly when a sense was removed, False otherwise.
C2_SensesDeduplicated ==
    (last = "senses" /\ Len(PreSenses) >= 2) =>
        LET dup(i, j) == Signature(pre, PreSenses[i]) = Signature(pre, PreSenses[j])
            gone == {PreSenses[j] : j \in {k \in 1..Len(PreSenses) :
                                            \E i \in 1..(k - 1) : dup(i, k)}}
        IN  /\ exc = "none"
            /\ tree.kids[Entry] = SelectSeq(pre.kids[Entry], LAMBDA c : c \notin gone)
            /\ tree = [pre EXCEPT !.kids[Entry] = tree.kids[Entry]]
            /\ ret = (IF gone # {} THEN "True" ELSE "False")

\* C2's case: three senses with one non-empty signature, the first kept.
C2_Witness ==
    /\ last = "senses" /\ Len(PreSenses) = 3
    /\ Signature(pre, PreSenses[1]) # <<>>
    /\ \A i \in 2..3 : Signature(pre, PreSenses[i]) = Signature(pre, PreSenses[1])
    /\ findall(tree, Entry, "sense") = <<PreSenses[1]>>
    /\ ret = "True"

\* The signature as C9 words it: quotes whose text is absent, empty or
\* whitespace only are left out.
WordsOnly(t, sense) ==
    LET qs == SelectSeq(tei_iter(t, sense, "quote"),
                        LAMBDA q : t.text[q] # None /\ Strip(t.text[q]) # <<>>)
    IN  [i \in 1..Len(qs) |-> Strip(t.text[qs[i]])]

\* C9: the signature rm_doubled_senses compares leaves out every quote with
\* absent, empty or whitespace-only text, so of two senses that differ only
\* by whitespace-only quotes the second is removed.
C9_BlankQuotesIgnored ==
    (last = "senses" /\ Len(PreSenses) >= 2) =>
        \A i, j \in 1..Len(PreSenses) :
            (i < j /\ WordsOnly(pre, PreSenses[i]) = WordsOnly(pre, PreSenses[j]))
                => ~InSeq(PreSenses[j], tree.kids[Entry])

PreQuotes == Translations(pre)

\* C10: when rm_doubled_quotes returns, a quote under sense/cit is still in
\* its cit exactly when no earlier quote of the entry has the same raw text
\* (so no two remaining quotes are equal, the first occurrence survives, a
\* unique quote stays), nothing else has changed, and the result is true
\* exactly when a quote was removed.
C10_QuotesDeduplicated ==
    (last = "quotes" /\ exc = "none") =>
        LET dup(i, j) == pre.text[PreQuotes[i][2]] = pre.text[PreQuotes[j][2]]
            gone == {PreQuotes[j][2] : j \in {k \in 1..Len(PreQuotes) :
                                               \E i \in 1..(k - 1) : dup(i, k)}}
            now == Translations(tree)
        IN  /\ now = SelectSeq(PreQuotes, LAMBDA tr : tr[2] \notin gone)
            /\ \A i, j \in 1..Len(now) :
                   i # j => tree.text[now[i][2]] # tree.text[now[j][2]]
            /\ tree = [pre EXCEPT !.kids = [x \in Ids |->
                          SelectSeq(pre.kids[x], LAMBDA c : c \notin gone)]]
            /\ (ret = "True") = (gone # {})
            /\ ret \in {"True", "False", "None"}

\* C10's case: three quotes of one raw text spread over cits, and a quote
\* that differs from them only by trailing whitespace, which stays.
C10_Witness ==
    /\ last = "quotes" /\ exc = "none" /\ ret = "True"
    /\ Len(PreQuotes) >= 3
    /\ \E i, j \in 1..Len(PreQuotes) :
           /\ i < j
           /\ PreQuotes[i][1] # PreQuotes[j][1]
           /\ pre.text[PreQuotes[i][2]] = <<"a">>
           /\ pre.text[PreQuotes[j][2]] = <<"a">>
    /\ \E k \in 1..Len(PreQuotes) :
           /\ pre.text[PreQuotes[k][2]] = <<"a", " ">>
           /\ InSeq(PreQuotes[k], Translations(tree))

\* C4: rm_doubled_quotes never raises: removing a quote that an earlier pair
\* removed is tolerated.
C4_QuotesNeverRaise == last = "quotes" => exc = "none"

Settled(t) == ~HasEmptyNode(t) /\ ~HasDuplicateSense(t)

SecondRunCalled == round = 2 /\ pc # "senses"

C5_DetectOnlyStopsAtFirstChange ==
    /\ [](main.detect =>
            /\ ~main.changed /\ ~main.written /\ main.cmds = <<>>
            /\ main.status = 42 =>
                   (pc = "exit" /\ any(main.ch) /\ tree # snap /\ main.idx >= 1)
            /\ (any(main.ch) /\ pc \in {"loop", "senses", "after", "exit"}) =>
                   main.status = 42)
    /\ [][(main.detect /\ pc = "check" /\ any(main.ch)) => main'.status = 42]_vars
    /\ [][main.status = 42 => (main'.idx = main.idx /\ tree' = tree)]_vars

\* C5's case: the first of two entries has a duplicate sense; the run ends
\* with 42 and the second entry is never received.
C5_Witness ==
    /\ main.detect /\ main.status = 42 /\ pc = "exit"
    /\ main.entries = 2 /\ main.idx = 1
    /\ main.ch[1] = "True"
    /\ HasDuplicateSense(snap)

\* C6: a detect-only run over a document without duplicate senses, duplicate
\* quotes and empty nodes never produces status 42, whatever attributes its
\* senses carry, and when it has walked the whole document without an
\* exception it ends with status 0 and nothing written.
C6_CleanDocumentPasses ==
    (main.detect /\ main.clean) =>
        /\ main.status # 42
        /\ (pc = "exit" /\ exc = "none") => (main.status = 0 /\ ~main.written)

FirstAt(s, token, from) ==
    IF \E i \in from..Len(s) : s[i] = token
    THEN CHOOSE i \in from..Len(s) : s[i] = token /\ \A j \in from..(i - 1) : s[j] # token
    ELSE 0

====
